---- MODULE Spec2Model ----
(***************************************************************************)
(* Model of the Calendar visualization                                     *)
(* (frontend/src/metabase/visualizations/visualizations/Calendar.jsx):     *)
(* the pre-flight check Calendar.checkRenderable and the computation in    *)
(* Calendar.render that aggregates the rows per date, bins the aggregated  *)
(* totals with d3.layout.histogram and picks the initial date handed to    *)
(* the calendar widget.                                                    *)
(*                                                                         *)
(* Representation.                                                         *)
(*  - A row is a pair <<dimension value, metric value>>; JavaScript's      *)
(*    0-based row[i] is rs[k][i + 1] here.                                 *)
(*  - A dimension value is an instant in milliseconds since the epoch.     *)
(*    The column holds it either as a number or as an ISO-8601 string of   *)
(*    one fixed format (dimKind); strings of one format order like their   *)
(*    instants, and a string compared with the number 0 is a comparison    *)
(*    with NaN, which is false.                                            *)
(*  - moment(v) is the one-element sequence <<v>>, <<>> stands for "no     *)
(*    moment"; moment(v).toString() has a resolution of one second and is  *)
(*    represented by the number of whole seconds since the epoch.          *)
(*  - Metric values are integers.  d3 computes the thresholds              *)
(*    m * x + b with m = (max - min) / n in doubles; here every threshold  *)
(*    and every compared value is scaled by n, which keeps them integers:  *)
(*    x < m * mid + b  iff  n * x < (max - min) * mid + n * b.             *)
(***************************************************************************)
EXTENDS Integers, Sequences, FiniteSets, TLC

\* ---- bounds of the model -------------------------------------------------
MaxRows == 3
MaxMetric == 1
MaxDim == 1

\* ---- program constants ---------------------------------------------------
\* .bins(10)
BINS == 10
\* moment#toString prints whole seconds
MS_PER_SECOND == 1000

\* static isSensible: the series has two columns
cols == <<"date", "count">>

\* a setting that has not been chosen (undefined), falsy in JavaScript
NULL == "undefined"

DimValues == {0 - MS_PER_SECOND} \cup {MS_PER_SECOND + 500 * k : k \in 0..MaxDim}
MetricValues == (0 - 1)..MaxMetric
DimKinds == {"number", "string"}

VARIABLES rows, settings, dimKind, error, rendered,
          min, max, minDate, maxDate, dates, bins, initial, prevInitial

vars == <<rows, settings, dimKind, error, rendered,
          min, max, minDate, maxDate, dates, bins, initial, prevInitial>>

outputs == <<min, max, minDate, maxDate, dates, bins, initial>>

\* ---- settings ------------------------------------------------------------
\* "calendar.from_start_not_end": default: true; no column chosen yet
defaultSettings ==
  [dimension |-> NULL, metric |-> NULL, from_start_not_end |-> TRUE]

\* _.findIndex(cols, col => col.name === name), 0-based, -1 when absent
findIndex(cs, name) ==
  IF \E i \in 1..Len(cs) : cs[i] = name
  THEN (CHOOSE i \in 1..Len(cs) :
          cs[i] = name /\ \A j \in 1..(i - 1) : cs[j] # name) - 1
  ELSE 0 - 1

\* "calendar._dimensionIndex"
dimensionIndex(s) == findIndex(cols, s.dimension)
\* "calendar._metricIndex"
metricIndex(s) == findIndex(cols, s.metric)

\* ---- Calendar.checkRenderable ---------------------------------------------
checkRenderable_columnsFirst(rs, s) ==
  IF s.dimension = NULL \/ s.metric = NULL THEN "ChartSettingsError"
  ELSE IF Len(rs) < 1 THEN "MinRowsError"
  ELSE "none"

checkRenderable(rs, s) ==
  IF Len(rs) < 1 THEN "MinRowsError"
  ELSE IF s.dimension = NULL \/ s.metric = NULL THEN "ChartSettingsError"
  ELSE "none"

\* ---- JavaScript relational operators on a column's values ----------------
\* a > b, a < b where a is the accumulator of a reduce seeded with the number
\* 0 (aIsSeed) or a value of the column, and b is a value of the column
jsGreater(a, b, kind, aIsSeed) ==
  IF kind = "string" /\ aIsSeed THEN FALSE ELSE a > b

jsLess(a, b, kind, aIsSeed) ==
  IF kind = "string" /\ aIsSeed THEN FALSE ELSE a < b

\* ---- the four reduces of render -------------------------------------------
RECURSIVE reduceMax_unseeded(_, _, _, _)
reduceMax_unseeded(rs, ix, kind, n) ==
  IF n = 0 THEN 0
  ELSE IF n = 1 THEN rs[1][ix + 1]
  ELSE LET acc == reduceMax_unseeded(rs, ix, kind, n - 1)
           v == rs[n][ix + 1]
       IN IF acc > v THEN acc ELSE v

\* rows.reduce((max, row) => (max > row[ix] ? max : row[ix]), 0) over the
\* first n rows
RECURSIVE reduceMax(_, _, _, _)
reduceMax(rs, ix, kind, n) ==
  IF n = 0 THEN 0
  ELSE LET acc == reduceMax(rs, ix, kind, n - 1)
           v == rs[n][ix + 1]
       IN IF jsGreater(acc, v, kind, n = 1) THEN acc ELSE v

\* rows.reduce((min, row) => (min < row[ix] ? min : row[ix]), 0) over the
\* first n rows
RECURSIVE reduceMin(_, _, _, _)
reduceMin(rs, ix, kind, n) ==
  IF n = 0 THEN 0
  ELSE LET acc == reduceMin(rs, ix, kind, n - 1)
           v == rs[n][ix + 1]
       IN IF jsLess(acc, v, kind, n = 1) THEN acc ELSE v

\* ---- moment ---------------------------------------------------------------
moment(v) == <<v>>
\* moment(v).toString(): the instant cut to whole seconds
momentToString(v) == v \div MS_PER_SECOND

\* ---- aggregation: the reduce that builds `dates` --------------------------
\* `dates` is the object's entries in insertion order, as Object.entries
\* returns them: a sequence of <<key, total>>
hasKey(ds, key) == \E j \in 1..Len(ds) : ds[j][1] = key

addRow_overwrite(ds, row, dIx, mIx) ==
  LET date == momentToString(row[dIx + 1])
  IN IF ~hasKey(ds, date) THEN Append(ds, <<date, row[mIx + 1]>>)
     ELSE [j \in 1..Len(ds) |->
             IF ds[j][1] = date THEN <<date, row[mIx + 1]>> ELSE ds[j]]

\* one step of the reducer: if (!(date in dates)) dates[date] = 0;
\* dates[date] += row[metricIndex]
addRow(ds, row, dIx, mIx) ==
  LET date == momentToString(row[dIx + 1])
      ds0 == IF ~hasKey(ds, date) THEN Append(ds, <<date, 0>>) ELSE ds
  IN [j \in 1..Len(ds0) |->
        IF ds0[j][1] = date THEN <<date, ds0[j][2] + row[mIx + 1]>>
        ELSE ds0[j]]

RECURSIVE reduceDates(_, _, _, _)
reduceDates(rs, dIx, mIx, n) ==
  IF n = 0 THEN <<>>
  ELSE addRow(reduceDates(rs, dIx, mIx, n - 1), rs[n], dIx, mIx)

\* ---- d3.layout.histogram (d3 3.x) ------------------------------------------
\* d3_layout_histogramBinFixed(range, n): the n + 1 thresholds m * x + b,
\* each scaled by n; range is <<min, max>>
d3_layout_histogramBinFixed(range, n) ==
  [x \in 0..n |-> (range[2] - range[1]) * x + n * range[1]]

RECURSIVE d3_bisectLeft(_, _, _, _)
d3_bisectLeft(a, x, lo, hi) ==
  IF lo < hi
  THEN LET mid == (lo + hi) \div 2
       IN IF a[mid] < x THEN d3_bisectLeft(a, x, mid + 1, hi)
          ELSE d3_bisectLeft(a, x, lo, mid)
  ELSE lo

RECURSIVE d3_bisectDescending(_, _, _, _)
d3_bisectDescending(a, x, lo, hi) ==
  IF lo < hi
  THEN LET mid == (lo + hi) \div 2
       IN IF x > a[mid] THEN d3_bisectDescending(a, x, lo, mid)
          ELSE d3_bisectDescending(a, x, mid + 1, hi)
  ELSE lo

\* d3.bisect = d3.bisectRight: the insertion point after the entries equal
\* to x, searched in a[lo..hi-1]
RECURSIVE d3_bisect(_, _, _, _)
d3_bisect(a, x, lo, hi) ==
  IF lo < hi
  THEN LET mid == (lo + hi) \div 2
       IN IF x < a[mid] THEN d3_bisect(a, x, lo, mid)
          ELSE d3_bisect(a, x, mid + 1, hi)
  ELSE lo

\* the index of the bin an entry is pushed to, -1 when the entry's value is
\* outside the range and the entry is pushed to no bin:
\*   if (x >= range[0] && x <= range[1])
\*     bin = bins[d3.bisect(thresholds, x, 1, m) - 1]
binIndex_openRange(entry, range, n) ==
  LET thresholds == d3_layout_histogramBinFixed(range, n)
      x == entry[2]
  IN IF x >= range[1] /\ x < range[2]
     THEN d3_bisect(thresholds, n * x, 1, n) - 1
     ELSE 0 - 1

binIndex(entry, range, n) ==
  LET thresholds == d3_layout_histogramBinFixed(range, n)
      x == entry[2]
  IN IF x >= range[1] /\ x <= range[2]
     THEN d3_bisect(thresholds, n * x, 1, n) - 1
     ELSE 0 - 1

\* d3.layout.histogram().value(entry => entry[1]).range(range).bins(n)(data):
\* the n bins, bin ix at position ix + 1, each the entries pushed to it in
\* the order of data
histogram(data, range, n) ==
  [i \in 1..n |-> SelectSeq(data, LAMBDA e : binIndex(e, range, n) = i - 1)]

\* ---- binsh.reduce: the object date -> index of its bin --------------------
\* bins[entry[0]] = ix for every entry of every bin, in the order of the
\* bins: the last bin that holds a key wins
binKeys(bh, ix) == {bh[ix + 1][j][1] : j \in 1..Len(bh[ix + 1])}

reduceBins(bh) ==
  LET keys == UNION {binKeys(bh, ix) : ix \in 0..(Len(bh) - 1)}
  IN [k \in keys |->
        CHOOSE ix \in 0..(Len(bh) - 1) :
          /\ k \in binKeys(bh, ix)
          /\ \A jx \in (ix + 1)..(Len(bh) - 1) : k \notin binKeys(bh, jx)]

\* ---- the initial date of the widget ----------------------------------------
selectInitial_alwaysMin(s, mn, mx) == moment(mn)

\* settings["calendar.from_start_not_end"] ? moment(minDate) : moment(maxDate)
selectInitial(s, mn, mx) ==
  IF s.from_start_not_end THEN moment(mn) ELSE moment(mx)

\* ---- state machine ----------------------------------------------------------
TypeOK ==
  /\ rows \in Seq(DimValues \X MetricValues) /\ Len(rows) <= MaxRows
  /\ settings \in [dimension : {NULL, cols[1]}, metric : {NULL, cols[2]},
                   from_start_not_end : BOOLEAN]
  /\ dimKind \in DimKinds
  /\ error \in {"unchecked", "none", "MinRowsError", "ChartSettingsError"}
  /\ rendered \in BOOLEAN

\* nothing has been rendered for the current props
noOutput ==
  /\ rendered' = FALSE
  /\ min' = 0 /\ max' = 0 /\ minDate' = 0 /\ maxDate' = 0
  /\ dates' = <<>> /\ bins' = <<>> /\ initial' = <<>>

Init ==
  /\ rows = <<>>
  /\ settings = defaultSettings
  /\ dimKind \in DimKinds
  /\ error = "unchecked"
  /\ rendered = FALSE
  /\ min = 0 /\ max = 0 /\ minDate = 0 /\ maxDate = 0
  /\ dates = <<>> /\ bins = <<>> /\ initial = <<>>
  /\ prevInitial = <<>>

\* the query result the component is given grows by one row
LoadRow(d, m) ==
  /\ Len(rows) < MaxRows
  /\ rows' = Append(rows, <<d, m>>)
  /\ error' = "unchecked"
  /\ noOutput
  /\ prevInitial' = <<>>
  /\ UNCHANGED <<settings, dimKind>>

\* the user picks (or clears) the column of "calendar.dimension"
SelectDimension(c) ==
  /\ c # settings.dimension
  /\ settings' = [settings EXCEPT !.dimension = c]
  /\ error' = "unchecked"
  /\ noOutput
  /\ prevInitial' = <<>>
  /\ UNCHANGED <<rows, dimKind>>

\* the user picks (or clears) the column of "calendar.metric"
SelectMetric(c) ==
  /\ c # settings.metric
  /\ settings' = [settings EXCEPT !.metric = c]
  /\ error' = "unchecked"
  /\ noOutput
  /\ prevInitial' = <<>>
  /\ UNCHANGED <<rows, dimKind>>

\* the user flips the toggle "calendar.from_start_not_end"; the widget keeps
\* the date it was given for the same rows as its previous props
ToggleFromStart ==
  /\ settings' = [settings EXCEPT
                    !.from_start_not_end = ~settings.from_start_not_end]
  /\ error' = "unchecked"
  /\ prevInitial' = IF rendered THEN initial ELSE <<>>
  /\ noOutput
  /\ UNCHANGED <<rows, dimKind>>

\* Calendar.checkRenderable(series, settings); the exception it throws, or
\* "none", is kept in error
CheckRenderable ==
  /\ error = "unchecked"
  /\ error' = checkRenderable(rows, settings)
  /\ UNCHANGED <<rows, settings, dimKind, rendered, outputs, prevInitial>>

\* the visualization is rendered only when checkRenderable did not throw
canRender == error = "none" /\ ~rendered

\* Calendar.render
Render ==
  /\ canRender
  /\ LET dIx == dimensionIndex(settings)
         mIx == metricIndex(settings)
         n == Len(rows)
         mx == reduceMax(rows, mIx, "number", n)
         mn == reduceMin(rows, mIx, "number", n)
         mxDate == reduceMax(rows, dIx, dimKind, n)
         mnDate == reduceMin(rows, dIx, dimKind, n)
         ds == reduceDates(rows, dIx, mIx, n)
         binsh == histogram(ds, <<mn, mx>>, BINS)
     IN /\ max' = mx
        /\ min' = mn
        /\ maxDate' = mxDate
        /\ minDate' = mnDate
        /\ dates' = ds
        /\ bins' = reduceBins(binsh)
        /\ initial' = selectInitial(settings, mnDate, mxDate)
  /\ rendered' = TRUE
  /\ UNCHANGED <<rows, settings, dimKind, error, prevInitial>>

Next ==
  \/ \E d \in DimValues, m \in MetricValues : LoadRow(d, m)
  \/ \E c \in {NULL, cols[1]} : SelectDimension(c)
  \/ \E c \in {NULL, cols[2]} : SelectMetric(c)
  \/ ToggleFromStart
  \/ CheckRenderable
  \/ Render

Spec == Init /\ [][Next]_vars

\* ---- vocabulary of the properties -------------------------------------------
RowIxs == 1..Len(rows)
\* the metric and the dimension value of row i (column order of cols)
MetricOf(i) == rows[i][2]
DimOf(i) == rows[i][1]
Metrics == {MetricOf(i) : i \in RowIxs}
Dims == {DimOf(i) : i \in RowIxs}

SetMin(S) == CHOOSE x \in S : \A y \in S : x <= y
SetMax(S) == CHOOSE x \in S : \A y \in S : x >= y

RECURSIVE SumMetrics(_)
SumMetrics(I) ==
  IF I = {} THEN 0
  ELSE LET i == CHOOSE j \in I : TRUE IN MetricOf(i) + SumMetrics(I \ {i})

RECURSIVE SumTotals(_)
SumTotals(J) ==
  IF J = {} THEN 0
  ELSE LET j == CHOOSE k \in J : TRUE IN dates[j][2] + SumTotals(J \ {j})

\* the aggregated entries: their positions, keys and totals
EntryIxs == 1..Len(dates)
KeyOf(j) == dates[j][1]
TotalOf(j) == dates[j][2]
Keys == {KeyOf(j) : j \in EntryIxs}
Binned(j) == KeyOf(j) \in DOMAIN bins
\* the rows whose date prints as key k
RowsOfKey(k) == {i \in RowIxs : DimOf(i) \div MS_PER_SECOND = k}

\* the total of entry j lies on the threshold between bin i - 1 and bin i
OnBoundary(j, i) ==
  /\ max > min
  /\ BINS * TotalOf(j) = (max - min) * i + BINS * min

AllMetricsEqual == \A i1 \in RowIxs, i2 \in RowIxs : MetricOf(i1) = MetricOf(i2)

\* ---- C1 ---------------------------------------------------------------------
\* C1 (bin coverage): after render, the keys of bins are exactly the keys of
\* the aggregated entries, every date has one bin index, also when rows share
\* a date and the total differs from every row's metric.
C1_BinCoverage ==
  rendered => /\ DOMAIN bins = Keys
              /\ \A k \in Keys : bins[k] \in 0..(BINS - 1)

\* ---- C2 ---------------------------------------------------------------------
\* C2 (degenerate range, as claimed): if all metric values of the rows are
\* equal, every aggregated entry has bin index 0 and no other bin is used.
C2_DegenerateRangeBinZero ==
  (rendered /\ AllMetricsEqual) =>
     /\ \A j \in EntryIxs : Binned(j) /\ bins[KeyOf(j)] = 0
     /\ \A k \in DOMAIN bins : bins[k] = 0

\* C2 (amended): if all metric values of the rows equal v, an entry whose
\* total is v has the last bin index 9 when v >= 0 and bin index 0 when
\* v < 0, an entry whose total is not v (several rows of one date, v # 0)
\* has no bin index, and no other bin is used.
C2_DegenerateRange ==
  (rendered /\ AllMetricsEqual) =>
     LET v == MetricOf(1)
         ix == IF v >= 0 THEN BINS - 1 ELSE 0
     IN /\ \A j \in EntryIxs :
             IF TotalOf(j) = v THEN Binned(j) /\ bins[KeyOf(j)] = ix
             ELSE ~Binned(j) /\ v # 0 /\ Cardinality(RowsOfKey(KeyOf(j))) > 1
        /\ \A k \in DOMAIN bins : bins[k] = ix

C2_Witness ==
  /\ rendered /\ AllMetricsEqual /\ Len(rows) = 1
  /\ MetricOf(1) > 0
  /\ \E k \in DOMAIN bins : bins[k] = BINS - 1

\* ---- C3 ---------------------------------------------------------------------
\* C3 (bin monotonicity): of two entries that both have a bin index, the one
\* with the smaller total has the smaller or the same bin index.
C3_BinMonotonic ==
  rendered =>
     \A j1 \in EntryIxs, j2 \in EntryIxs :
        (Binned(j1) /\ Binned(j2) /\ TotalOf(j1) < TotalOf(j2))
           => bins[KeyOf(j1)] <= bins[KeyOf(j2)]

C3_Witness ==
  /\ rendered
  /\ \E j1 \in EntryIxs, j2 \in EntryIxs :
        /\ Binned(j1) /\ Binned(j2)
        /\ TotalOf(j1) < TotalOf(j2)
        /\ bins[KeyOf(j1)] < bins[KeyOf(j2)]
        /\ bins[KeyOf(j1)] > 0

\* ---- C4 ---------------------------------------------------------------------
\* C4 (aggregation): dates has exactly one entry per distinct printed date of
\* the rows, each total is the sum of the metrics of the rows of that date,
\* and the totals sum to the sum of all metrics.
C4_Aggregation ==
  rendered =>
     /\ Keys = {DimOf(i) \div MS_PER_SECOND : i \in RowIxs}
     /\ \A j1 \in EntryIxs, j2 \in EntryIxs : KeyOf(j1) = KeyOf(j2) => j1 = j2
     /\ \A j \in EntryIxs : TotalOf(j) = SumMetrics(RowsOfKey(KeyOf(j)))
     /\ SumTotals(EntryIxs) = SumMetrics(RowIxs)

C4_Witness ==
  /\ rendered
  /\ Len(dates) = 2 /\ Len(rows) = 3
  /\ \E j \in EntryIxs :
        /\ Cardinality(RowsOfKey(KeyOf(j))) = 2
        /\ \E i1 \in RowsOfKey(KeyOf(j)), i2 \in RowsOfKey(KeyOf(j)) :
              DimOf(i1) # DimOf(i2)
        /\ \A i \in RowIxs : TotalOf(j) # MetricOf(i)

\* ---- C5 ---------------------------------------------------------------------
\* C5 (anchor is a row value): the date given to the widget is the smallest
\* dimension value of the rows when from_start_not_end is set and the largest
\* when it is not.
C5_AnchorIsRowValue ==
  rendered =>
     initial = moment(IF settings.from_start_not_end
                      THEN SetMin(Dims) ELSE SetMax(Dims))

\* ---- C6 ---------------------------------------------------------------------
\* C6 (pre-flight validation): checkRenderable throws MinRowsError whenever
\* rows is empty, whatever the settings; with rows it throws
\* ChartSettingsError when the dimension or the metric is not chosen; it
\* passes only with rows and both columns chosen, so render never runs on no
\* rows or without a column.
C6_PreFlight ==
  LET unset == settings.dimension = NULL \/ settings.metric = NULL
  IN /\ (error # "unchecked" /\ Len(rows) = 0) => error = "MinRowsError"
     /\ (error # "unchecked" /\ Len(rows) > 0 /\ unset)
           => error = "ChartSettingsError"
     /\ error = "none" => (Len(rows) > 0 /\ ~unset)
     /\ rendered => /\ Len(rows) > 0 /\ ~unset
                    /\ dimensionIndex(settings) >= 0
                    /\ metricIndex(settings) >= 0

C6_Witness ==
  /\ error = "MinRowsError"
  /\ Len(rows) = 0
  /\ settings.dimension = NULL /\ settings.metric # NULL

\* ---- C7 ---------------------------------------------------------------------
\* C7 (anchor toggling): the date given to the widget is minDate when
\* from_start_not_end is set and maxDate otherwise, minDate and maxDate being
\* the folds seeded with 0 (for a numeric column the smallest and the largest
\* of 0 and the rows' values); after the toggle is flipped on the same rows
\* the new date equals the previous one exactly when minDate = maxDate.
C7_AnchorToggle ==
  rendered =>
     /\ initial = moment(IF settings.from_start_not_end
                         THEN minDate ELSE maxDate)
     /\ dimKind = "number" => /\ minDate = SetMin(Dims \cup {0})
                              /\ maxDate = SetMax(Dims \cup {0})
     /\ prevInitial # <<>> => ((initial = prevInitial) <=> (minDate = maxDate))

C7_Witness ==
  /\ rendered
  /\ prevInitial # <<>>
  /\ initial # prevInitial
  /\ ~settings.from_start_not_end

\* ---- C8 ---------------------------------------------------------------------
\* C8 (interior boundary, as claimed): an entry whose total lies exactly on
\* the threshold between bin i - 1 and bin i has the lower bin index i - 1.
C8_BoundaryLowerBin ==
  rendered =>
     \A j \in EntryIxs, i \in 1..(BINS - 1) :
        OnBoundary(j, i) => (Binned(j) /\ bins[KeyOf(j)] = i - 1)

\* C8 (amended): an entry whose total lies exactly on the threshold between
\* bin i - 1 and bin i has the higher bin index i: the bins are closed below
\* and open above.
C8_BoundaryUpperBin ==
  rendered =>
     \A j \in EntryIxs, i \in 1..(BINS - 1) :
        OnBoundary(j, i) => (Binned(j) /\ bins[KeyOf(j)] = i)

C8_Witness ==
  /\ rendered
  /\ \E j \in EntryIxs, i \in 1..(BINS - 1) :
        OnBoundary(j, i) /\ Binned(j) /\ bins[KeyOf(j)] = i

\* ---- C9 ---------------------------------------------------------------------
\* C9 (closed last bin): an entry whose total equals max, the upper end of
\* the range, has the last bin index BINS - 1 = 9.
C9_ClosedLastBin ==
  rendered =>
     \A j \in EntryIxs :
        TotalOf(j) = max => (Binned(j) /\ bins[KeyOf(j)] = BINS - 1)

C9_Witness ==
  /\ rendered
  /\ max > 0 /\ min < 0
  /\ \E j \in EntryIxs : TotalOf(j) = max /\ bins[KeyOf(j)] = BINS - 1

\* ---- C10 --------------------------------------------------------------------
\* C10 (zero-seeded range): min is the smallest and max the largest of 0 and
\* the metric values of the rows as given, not of the totals per date: min is
\* 0 when all metrics are positive, max is 0 when all are negative.
C10_ZeroSeededRange ==
  rendered =>
     /\ min = SetMin(Metrics \cup {0})
     /\ max = SetMax(Metrics \cup {0})
     /\ (\A i \in RowIxs : MetricOf(i) > 0) => min = 0
     /\ (\A i \in RowIxs : MetricOf(i) < 0) => max = 0

C10_Witness ==
  /\ rendered
  /\ \A i \in RowIxs : MetricOf(i) < 0
  /\ max = 0
  /\ \E j \in EntryIxs : TotalOf(j) < min

====
